---- MODULE Spec2Model ----
(***************************************************************************)
(* Zone-computation engine of the map application: the DuckDB spatial      *)
(* store (services/duckdbSpatial.ts) and the two call sites that drive     *)
(* calculateZones (components/AutoCalculator, components/Controls/         *)
(* ActionButtons).                                                         *)
(*                                                                         *)
(* Two specifications share the variables:                                 *)
(*   SpecSite   the call sites: React effects, timers, the async handler   *)
(*              handleCalculateZones and calculateZones with its abort     *)
(*              signal, on a store that is already initialized;            *)
(*   SpecStore  the store's life cycle and ingestion: initialize, dispose, *)
(*              loadFromParquet, ejectParquetData, loadOSMData,            *)
(*              getStatistics and calculateZones as API operations.        *)
(* Every await of the code is a scheduling point: the continuation after   *)
(* it is its own action.  Code between two awaits runs as one action.      *)
(* Coordinates are integers in units of 0.0001 degree, the precision the   *)
(* call sites round bounds to (toFixed(4)).                                *)
(***************************************************************************)
EXTENDS Integers, Sequences, FiniteSets, TLC

(***************************************************************************)
(* Bounds of the model                                                     *)
(***************************************************************************)
MaxCalls == 2        \* handleCalculateZones invocations per behaviour
MaxMoves == 2        \* map move / zoom events per behaviour
MaxEngines == 2      \* engine instances created per behaviour
BatchSize == 2       \* rows per multi-row INSERT (BATCH_SIZE, scaled down)

(***************************************************************************)
(* Program constants                                                       *)
(***************************************************************************)
minZoomForCalculation == 15
startZoom == 13      \* initial value of previousZoomRef
configZoom == 11     \* Config.map.zoom, the zoom of the initial state

Sites == {"AutoCalculator", "ActionButtons"}

\* The components that call useDuckDBSpatial; ControlPanel mounts
\* ActionButtons only while it is expanded.
Hooks == {"DataLoader", "AutoCalculator", "ActionButtons"}

\* state.map.bounds = null
NoBounds == [S |-> 0, W |-> 0, N |-> 0, E |-> 0]

\* The views the user can move the map to: (zoom, bounds).  View 1 is below
\* the minimum zoom, view 3 is a 3 % pan of view 2, view 4 a 20 % pan,
\* view 5 a zoom-in on view 2.
MapViews ==
  << [zoom |-> 13, bounds |-> [S |-> 0,   W |-> 0,   N |-> 400, E |-> 400]],
     [zoom |-> 15, bounds |-> [S |-> 100, W |-> 100, N |-> 200, E |-> 200]],
     [zoom |-> 15, bounds |-> [S |-> 100, W |-> 103, N |-> 200, E |-> 203]],
     [zoom |-> 15, bounds |-> [S |-> 100, W |-> 120, N |-> 200, E |-> 220]],
     [zoom |-> 16, bounds |-> [S |-> 125, W |-> 125, N |-> 175, E |-> 175]] >>

VARIABLES
  \* ---- DuckDBSpatialService (the singleton duckdbSpatial) ----
  conn,               \* this.conn # null
  db,                 \* this.db # null
  initialized,        \* this.initialized
  loadedFromParquet,  \* this.loadedFromParquet
  tableExists,        \* the table sensitive_locations exists in the database
  table,              \* its rows
  engines,            \* engine instances (worker + database) created so far
  initPc,             \* position of the running initialize(), "idle" if none
  disposePc,          \* position of the running dispose(), "idle" if none
  ing,                \* the ingestion operation in progress or last finished
  lastCall,           \* the last store operation invoked: its entry check
  \* ---- useDuckDBSpatial, one instance per component that uses the hook ----
  mounted,            \* the component is mounted
  hookInit,           \* the hook's isInitialized state
  hookPc,             \* position of the hook's duckdbSpatial.initialize() call
  hookEngine,         \* the engine that call created (its local db), 0 = none
  connOf,             \* the engine this.conn is a connection to, 0 = none
  sinceDispose,       \* engines created since dispose() was last called
  \* ---- React state shared by the components (AppContext) ----
  zoom,               \* state.map.zoom
  bounds,             \* state.map.bounds
  isLoading,          \* state.processing.isLoading
  geoJSON,            \* state.data.geoJSON has features
  bufferZones,        \* state.data.bufferZones: the viewport it was computed for
  eligibleZones,      \* state.data.eligibleZones: the viewport it was computed for
  statusType,         \* state.ui.statusType
  \* ---- per call site (component state and refs) ----
  dataLoadedRef,            \* ActionButtons: dataLoadedRef.current
  hasCalculatedOnce,
  hasTriggeredAutoCalculate,
  isCalculatingRef,
  abortControllerRef,       \* 0 = null, else the invocation that owns the controller
  previousBoundsRef,
  previousZoomRef,
  recalculateTimer,         \* a debounce timer is pending
  \* ---- invocations of handleCalculateZones ----
  calls,              \* one record per invocation, in the order they were issued
  aborted,            \* controllers whose signal is aborted
  moves,              \* number of map events so far
  \* ---- queries on the table, as functions of its rows ----
  zones,              \* calculateZones: the arguments and the value returned
  search,             \* searchLocations: the arguments and the outcome
  repair              \* repairGeometry: the engine's answers and the outcome

siteVars == << dataLoadedRef, hasCalculatedOnce, hasTriggeredAutoCalculate,
               isCalculatingRef, abortControllerRef, previousBoundsRef,
               previousZoomRef, recalculateTimer >>
storeVars == << conn, db, initialized, loadedFromParquet, tableExists, table >>
opVars == << engines, initPc, disposePc, ing, lastCall >>
hookVars == << mounted, hookInit, hookPc, hookEngine, connOf, sinceDispose >>
appVars == << zoom, bounds, isLoading, geoJSON, bufferZones, eligibleZones, statusType >>
callVars == << calls, aborted, moves >>
queryVars == << zones, search, repair >>
vars == << storeVars, opVars, hookVars, appVars, siteVars, callVars, queryVars >>

(***************************************************************************)
(* Pure helpers                                                            *)
(***************************************************************************)
Abs(x) == IF x < 0 THEN -x ELSE x

\* isSignificantMovement without its write to previousZoomRef: a zoom change,
\* no previous bounds, a centre moved by more than 5 % of the previous
\* viewport or a size changed by more than 10 %.  (a+b)/2 centres and the
\* divisions by prevWidth/prevHeight are cleared: |dc|/h > 0.05 with
\* dc = d(sum)/2 is |d(sum)| * 10 > h, and |dh|/h > 0.10 is |dh| * 10 > h.
isSignificantMovement(new, prev, currentZoom, prevZoom) ==
  IF currentZoom # prevZoom THEN TRUE
  ELSE IF prev = NoBounds THEN TRUE
  ELSE LET prevWidth  == prev.E - prev.W
           prevHeight == prev.N - prev.S
           newWidth   == new.E - new.W
           newHeight  == new.N - new.S
           significantCenterMovement ==
             \/ Abs((new.N + new.S) - (prev.N + prev.S)) * 10 > prevHeight
             \/ Abs((new.E + new.W) - (prev.E + prev.W)) * 10 > prevWidth
           significantSizeChange ==
             \/ Abs(newHeight - prevHeight) * 10 > prevHeight
             \/ Abs(newWidth - prevWidth) * 10 > prevWidth
       IN significantCenterMovement \/ significantSizeChange

\* A catch block that wraps what it caught in a generic error.
CalcCatchWrapped(err) == "Error"

\* The catch block of calculateZones logs and rethrows the error it caught.
CalcCatch(err) == err

\* The catch block of handleCalculateZones: an error named AbortError is
\* reported with an info status, every other error with an error status.
StatusForError(name) == IF name = "AbortError" THEN "info" ELSE "error"

\* calculateZones up to its first await: the connection check, then the two
\* abort checks that precede the query.
CalcEntry(hasConn, signalAborted) ==
  IF ~hasConn THEN "NotInitialized"
  ELSE IF signalAborted THEN "AbortError"
  ELSE "query"

\* What the engine can answer to the zone query.  The query buffers and
\* unions the stored geometries as they are, so an invalid geometry may make
\* the union/difference raise a topology exception; a missing table is a
\* catalog error.
QueryOutcomes ==
  IF ~tableExists THEN {"CatalogError"}
  ELSE {"ok"} \cup (IF \E r \in table : ~r.valid THEN {"TopologyException"} ELSE {})

\* calculateZones after the query: an engine error goes to the catch block;
\* otherwise the signal is checked once more and AbortError raised.
CalcRaised(q, signalAborted) ==
  IF q # "ok" THEN q
  ELSE IF signalAborted THEN "AbortError"
  ELSE "none"

(***************************************************************************)
(* Call sites: AutoCalculator and ActionButtons                            *)
(***************************************************************************)
NewCall(s, auto) ==
  [site |-> s, auto |-> auto, zoom |-> zoom, bounds |-> bounds,
   pc |-> "stats", outcome |-> "pending",
   raised |-> "none", thrown |-> "none", reported |-> "none"]

\* A finished invocation: its closure (the captured zoom and bounds) is gone,
\* its outcome stays on record.
Finished(c) == [c EXCEPT !.pc = "done", !.zoom = 0, !.bounds = NoBounds]

InFlight == {i \in DOMAIN calls : calls[i].pc = "calc"}

\* A change of state.processing.isLoading re-runs the auto-recalculate effect
\* of both components; the cleanup of the previous run clears its timer.
TimersAfterLoading(newLoading) ==
  [t \in Sites |-> IF newLoading # isLoading THEN FALSE ELSE recalculateTimer[t]]

\* handleCalculateZones up to its first await.  AutoCalculator checks the
\* zoom of its closure first and returns without a status; both components
\* are past useDuckDBSpatial's initialization, so both await getStatistics.
\* The values read are those of the render that created the callback
\* (AutoCalculator) or latestStateRef.current (ActionButtons): the current
\* ones, since a pending timer does not survive a change of bounds or zoom.
Request(s, auto) ==
  /\ Len(calls) < MaxCalls
  /\ calls' = Append(calls,
       IF s = "AutoCalculator" /\ zoom < minZoomForCalculation
       THEN [Finished(NewCall(s, auto)) EXCEPT !.outcome = "lowzoom"]
       ELSE NewCall(s, auto))

\* MapBoundsTracker.updateBounds: moveend/zoomend dispatch SET_MAP_BOUNDS and
\* SET_MAP_ZOOM.  The new bounds object re-runs the auto-recalculate effects,
\* whose cleanup clears a pending timer.
MoveMap(v) ==
  /\ moves < MaxMoves
  /\ MapViews[v].bounds # bounds
  /\ moves' = moves + 1
  /\ zoom' = MapViews[v].zoom
  /\ bounds' = MapViews[v].bounds
  /\ recalculateTimer' = [t \in Sites |-> FALSE]
  /\ UNCHANGED << storeVars, opVars, hookVars, queryVars, isLoading, geoJSON, bufferZones, eligibleZones,
                  statusType, dataLoadedRef, hasCalculatedOnce,
                  hasTriggeredAutoCalculate, isCalculatingRef,
                  abortControllerRef, previousBoundsRef, previousZoomRef,
                  calls, aborted >>

\* DataLoader.loadData, success path: the snapshot is in the table and
\* SET_GEOJSON makes AutoCalculator's isDataLoaded true.
DataLoaderDone(rows) ==
  /\ ~geoJSON
  /\ conn /\ tableExists
  /\ table' = rows
  /\ loadedFromParquet' = TRUE
  /\ geoJSON' = TRUE
  /\ UNCHANGED << conn, db, initialized, tableExists, opVars, hookVars, queryVars, zoom, bounds, isLoading,
                  bufferZones, eligibleZones, statusType, siteVars, callVars >>

\* ActionButtons.handleFetchData, success path through loadFromParquet:
\* SET_GEOJSON, setCanCalculate(true), setIsLoadedFromParquet(true) and
\* dataLoadedRef.current = true.
FetchDone(rows) ==
  /\ ~dataLoadedRef
  /\ conn /\ tableExists
  /\ table' = rows
  /\ loadedFromParquet' = TRUE
  /\ geoJSON' = TRUE
  /\ dataLoadedRef' = TRUE
  /\ UNCHANGED << conn, db, initialized, tableExists, opVars, hookVars, queryVars, zoom, bounds, isLoading,
                  bufferZones, eligibleZones, statusType, hasCalculatedOnce,
                  hasTriggeredAutoCalculate, isCalculatingRef,
                  abortControllerRef, previousBoundsRef, previousZoomRef,
                  recalculateTimer, callVars >>

\* isDataLoaded (AutoCalculator) or dataLoadedRef.current (ActionButtons)
DataReady(s) == IF s = "AutoCalculator" THEN geoJSON ELSE dataLoadedRef

\* The effect "auto-calculate when the user reaches the minimum zoom level
\* for the first time".
FirstAutoEffect(s) ==
  /\ DataReady(s)
  /\ ~hasTriggeredAutoCalculate[s]
  /\ ~hasCalculatedOnce[s]
  /\ ~isLoading
  /\ ~isCalculatingRef[s]
  /\ zoom >= minZoomForCalculation
  /\ bounds # NoBounds
  /\ hasTriggeredAutoCalculate' = [hasTriggeredAutoCalculate EXCEPT ![s] = TRUE]
  /\ Request(s, TRUE)
  /\ UNCHANGED << storeVars, opVars, hookVars, queryVars, appVars, dataLoadedRef, hasCalculatedOnce,
                  isCalculatingRef, abortControllerRef, previousBoundsRef,
                  previousZoomRef, recalculateTimer, aborted, moves >>

\* The effect "auto-recalculate zones when map bounds change".  ActionButtons
\* has no zoom condition here; its autoRecalculate checkbox is on and the
\* cooldown after a manual calculation has passed.
RecalcEffect(s) ==
  /\ hasCalculatedOnce[s]
  /\ DataReady(s)
  /\ ~isLoading
  /\ ~isCalculatingRef[s]
  /\ bounds # NoBounds
  /\ s = "AutoCalculator" => zoom >= minZoomForCalculation
  /\ previousBoundsRef[s] # bounds
  /\ LET significant ==
           isSignificantMovement(bounds, previousBoundsRef[s], zoom, previousZoomRef[s])
     IN /\ previousZoomRef' = [previousZoomRef EXCEPT ![s] = zoom]
        /\ previousBoundsRef' = [previousBoundsRef EXCEPT ![s] = bounds]
        /\ recalculateTimer' = [recalculateTimer EXCEPT ![s] = significant]
  /\ UNCHANGED << storeVars, opVars, hookVars, queryVars, appVars, dataLoadedRef, hasCalculatedOnce,
                  hasTriggeredAutoCalculate, isCalculatingRef,
                  abortControllerRef, callVars >>

\* The debounce timer of the auto-recalculate effect fires.
TimerFire(s) ==
  /\ recalculateTimer[s]
  /\ recalculateTimer' = [recalculateTimer EXCEPT ![s] = FALSE]
  /\ Request(s, TRUE)
  /\ UNCHANGED << storeVars, opVars, hookVars, queryVars, appVars, dataLoadedRef, hasCalculatedOnce,
                  hasTriggeredAutoCalculate, isCalculatingRef,
                  abortControllerRef, previousBoundsRef, previousZoomRef,
                  aborted, moves >>

\* The button "Calculate Eligible Zones" of ActionButtons (debug mode):
\* disabled while loading, before data is there and below zoom 15.
ManualClick ==
  /\ ~isLoading
  /\ dataLoadedRef
  /\ zoom >= minZoomForCalculation
  /\ Request("ActionButtons", FALSE)
  /\ UNCHANGED << storeVars, opVars, hookVars, queryVars, appVars, siteVars, aborted, moves >>

\* getStatistics as the handlers use it: 'Database not initialized' and a
\* failing count query are caught by the handler and leave hasDuckDBData false.
HasDuckDBData == conn /\ tableExists /\ Cardinality(table) > 0

\* The checks of handleCalculateZones between getStatistics and the abort of
\* the previous calculation.  AutoCalculator: data and the bounds of its
\* closure.  ActionButtons: data (restrictedLocations is null on the snapshot
\* path and the callback's isLoadedFromParquet is the one of the render that
\* created it, false), bounds, then the zoom of the state read on entry.
EarlyReturn(c, hasDuckDBData) ==
  IF ~hasDuckDBData \/ c.bounds = NoBounds THEN "nodata"
  ELSE IF c.site = "ActionButtons" /\ c.zoom < minZoomForCalculation THEN "lowzoom"
  ELSE "none"

\* The outcome the handler records for what calculateZones threw.
OutcomeOf(thrown) ==
  IF thrown = "none" THEN "delivered"
  ELSE IF thrown = "AbortError" THEN "cancelled"
  ELSE "error"

\* handleCalculateZones resumes after getStatistics: the early returns, the
\* abort of the controller in abortControllerRef, the isCalculatingRef guard,
\* then the new controller and the call of calculateZones up to its query.
StatsDone(i) ==
  /\ i \in DOMAIN calls
  /\ calls[i].pc = "stats"
  /\ LET c == calls[i]
         s == c.site
         early == EarlyReturn(c, HasDuckDBData)
         abortFires == early = "none" /\ abortControllerRef[s] # 0
         aborted1 == IF abortFires THEN aborted \cup {abortControllerRef[s]} ELSE aborted
         skipped == early = "none" /\ isCalculatingRef[s]
         starts == early = "none" /\ ~isCalculatingRef[s]
         entry == CalcEntry(conn, i \in aborted1)
         queried == starts /\ entry = "query"
         failed == starts /\ entry # "query"
         newLoading == IF queried THEN TRUE ELSE IF failed THEN FALSE ELSE isLoading
     IN /\ aborted' = aborted1
        /\ calls' = [calls EXCEPT ![i] =
             IF early # "none"
             THEN [Finished(c) EXCEPT !.outcome = early,
                            !.reported = IF s = "AutoCalculator" THEN "none"
                                         ELSE IF early = "nodata" THEN "error" ELSE "info"]
             ELSE IF skipped THEN [Finished(c) EXCEPT !.outcome = "skipped"]
             ELSE IF queried THEN [c EXCEPT !.pc = "calc"]
             ELSE [Finished(c) EXCEPT !.outcome = OutcomeOf(entry),
                            !.thrown = entry, !.reported = StatusForError(entry)]]
        /\ abortControllerRef' = [abortControllerRef EXCEPT ![s] =
             IF early # "none" THEN @ ELSE IF queried THEN i ELSE 0]
        /\ isCalculatingRef' = [isCalculatingRef EXCEPT ![s] =
             IF queried THEN TRUE ELSE IF failed THEN FALSE ELSE @]
        /\ hasCalculatedOnce' = [hasCalculatedOnce EXCEPT ![s] = IF starts THEN TRUE ELSE @]
        /\ isLoading' = newLoading
        /\ recalculateTimer' = TimersAfterLoading(newLoading)
        /\ statusType' =
             IF early # "none"
             THEN (IF s = "AutoCalculator" THEN statusType
                   ELSE IF early = "nodata" THEN "error" ELSE "info")
             ELSE IF queried THEN "info"
             ELSE IF failed THEN StatusForError(entry)
             ELSE statusType
  /\ UNCHANGED << storeVars, opVars, hookVars, queryVars, zoom, bounds, geoJSON, bufferZones, eligibleZones,
                  dataLoadedRef, hasTriggeredAutoCalculate, previousBoundsRef,
                  previousZoomRef, moves >>

\* The zone query of invocation i returns (q = "ok") or raises (q): the rest
\* of calculateZones, then the handler's try / catch / finally.  All of it
\* runs in the microtasks of the query's completion.
CalcDone(i, q) ==
  /\ i \in DOMAIN calls
  /\ calls[i].pc = "calc"
  /\ q \in QueryOutcomes
  /\ LET c == calls[i]
         s == c.site
         raised == CalcRaised(q, i \in aborted)
         thrown == IF raised = "none" THEN "none" ELSE CalcCatch(raised)
         status == IF thrown = "none" THEN "success" ELSE StatusForError(thrown)
     IN /\ calls' = [calls EXCEPT ![i] =
             [Finished(c) EXCEPT !.outcome = OutcomeOf(thrown),
                       !.raised = raised, !.thrown = thrown, !.reported = status]]
        /\ bufferZones' = IF thrown = "none" THEN c.bounds ELSE bufferZones
        /\ eligibleZones' = IF thrown = "none" THEN c.bounds ELSE eligibleZones
        /\ statusType' = status
        /\ isCalculatingRef' = [isCalculatingRef EXCEPT ![s] = FALSE]
        /\ abortControllerRef' = [abortControllerRef EXCEPT ![s] = 0]
        /\ isLoading' = FALSE
        /\ recalculateTimer' = TimersAfterLoading(FALSE)
  /\ UNCHANGED << storeVars, opVars, hookVars, queryVars, zoom, bounds, geoJSON, dataLoadedRef,
                  hasCalculatedOnce, hasTriggeredAutoCalculate,
                  previousBoundsRef, previousZoomRef, aborted, moves >>

\* No ingestion yet, no store operation invoked yet.
IdleIngest ==
  [op |-> "none", pc |-> "idle", rows |-> << >>, next |-> 0, cur |-> 0,
   inserted |-> 0, failed |-> 0, fallbacks |-> 0, count |-> 0, engine |-> 0,
   ready |-> FALSE, had |-> FALSE, old |-> {}, input |-> << >>,
   outcome |-> "none", cause |-> "none"]
NoCall == [op |-> "none", initialized |-> FALSE, passed |-> FALSE]

\* No query has been made.
NullGeometry == [isNull |-> TRUE, cells |-> {}]
NoZones == [pc |-> "none", store |-> {}, west |-> 0, east |-> 0, mode |-> "accurate",
            meters |-> 0, buffered |-> {}, restrictedZones |-> NullGeometry,
            eligibleZones |-> NullGeometry, locationCount |-> 0,
            column |-> "geometry", simplified |-> 0,
            prevMeters |-> 0, prevEligible |-> NullGeometry]
NoSearch == [pc |-> "none", names |-> {}, query |-> << >>, limit |-> 0,
             failed |-> FALSE, threw |-> FALSE, rows |-> << >>]

NoRepair == [pc |-> "none", hasMakeValid |-> FALSE, hasReducePrecision |-> FALSE,
             isValid |-> "valid", succeeds |-> {}, tried |-> << >>,
             result |-> "null"]

\* Snapshots the loaders can put into the table: rows with a valid geometry
\* and rows whose geometry is invalid (a self-intersecting way).
Row(id, valid) == [id |-> id, valid |-> valid]
SnapshotRows == { {Row(1, TRUE)}, {Row(1, TRUE), Row(2, FALSE)} }

\* The application once DataLoader has initialized the store, with the map at
\* zoom z showing the bounds b.
AppReadyAt(z, b) ==
  /\ conn = TRUE /\ db = TRUE /\ initialized = TRUE
  /\ loadedFromParquet = FALSE /\ tableExists = TRUE /\ table = {}
  /\ engines = 1 /\ initPc = "idle" /\ disposePc = "idle"
  /\ ing = IdleIngest /\ lastCall = NoCall
  /\ mounted = [h \in Hooks |-> TRUE] /\ hookInit = [h \in Hooks |-> TRUE]
  /\ hookPc = [h \in Hooks |-> "idle"] /\ hookEngine = [h \in Hooks |-> 0]
  /\ connOf = 1 /\ sinceDispose = 1
  /\ zoom = z /\ bounds = b /\ isLoading = FALSE
  /\ geoJSON = FALSE /\ bufferZones = NoBounds /\ eligibleZones = NoBounds
  /\ statusType = "info"
  /\ dataLoadedRef = FALSE
  /\ hasCalculatedOnce = [s \in Sites |-> FALSE]
  /\ hasTriggeredAutoCalculate = [s \in Sites |-> FALSE]
  /\ isCalculatingRef = [s \in Sites |-> FALSE]
  /\ abortControllerRef = [s \in Sites |-> 0]
  /\ previousBoundsRef = [s \in Sites |-> NoBounds]
  /\ previousZoomRef = [s \in Sites |-> startZoom]
  /\ recalculateTimer = [s \in Sites |-> FALSE]
  /\ calls = << >> /\ aborted = {} /\ moves = 0

\* Before the first moveend: Config.map.zoom and no bounds.
AppReady == AppReadyAt(configZoom, NoBounds)

\* The application after the data loader has initialized the store; no query
\* has been made.
InitSite == AppReady /\ zones = NoZones /\ search = NoSearch /\ repair = NoRepair

NextSite ==
  \/ \E v \in DOMAIN MapViews : MoveMap(v)
  \/ \E rows \in SnapshotRows : DataLoaderDone(rows)
  \/ \E rows \in SnapshotRows : FetchDone(rows)
  \/ \E s \in Sites : FirstAutoEffect(s)
  \/ \E s \in Sites : RecalcEffect(s)
  \/ \E s \in Sites : TimerFire(s)
  \/ ManualClick
  \/ \E i \in 1..MaxCalls : StatsDone(i)
  \/ \E i \in 1..MaxCalls, q \in {"ok", "TopologyException", "CatalogError"} : CalcDone(i, q)

SpecSite == InitSite /\ [][NextSite]_vars

(***************************************************************************)
(* Properties of the call sites and of calculateZones (SpecSite)           *)
(***************************************************************************)
SameSiteInFlight(i) == {j \in InFlight : calls[j].site = calls[i].site}

\* C1: when a handler invocation reaches the cancel step while an earlier
\* invocation of the same component has its calculateZones call in flight,
\* the earlier call's signal is aborted and the new invocation starts its
\* own calculateZones call (it is not dropped).
C1_NewRequestCancelsAndStarts ==
  [][\A i \in DOMAIN calls :
       ( /\ calls[i].pc = "stats"
         /\ calls'[i].pc # "stats"
         /\ calls'[i].outcome \notin {"nodata", "lowzoom"}
         /\ \E j \in SameSiteInFlight(i) : j < i )
       => ( /\ calls'[i].pc = "calc"
            /\ \A j \in SameSiteInFlight(i) : j \in aborted' )]_vars

\* C2: the result of a calculateZones call is never delivered to the
\* displayed zones once a newer request has been issued at the same call site.
C2_NoStaleDelivery ==
  [][\A i \in DOMAIN calls :
       (calls[i].outcome # "delivered" /\ calls'[i].outcome = "delivered")
       => ~\E j \in DOMAIN calls : j > i /\ calls[j].site = calls[i].site]_vars

\* C3: at most one calculateZones call is in flight against the shared
\* store, over both call sites.
C3_AtMostOneInFlight == Cardinality(InFlight) <= 1

\* C4: a calculateZones call whose signal was aborted before the call
\* resolved ends with the error named AbortError.
C4_AbortedEndsWithAbortError ==
  \A i \in DOMAIN calls :
    (calls[i].pc = "done" /\ i \in aborted) => calls[i].thrown = "AbortError"

\* C5: the cancellation raised inside calculateZones leaves it as the error
\* named AbortError, only for an aborted signal, and the call site reports it
\* with an info status, never as a delivered result or an error status.
C5_CancellationIsDistinct ==
  \A i \in DOMAIN calls :
    calls[i].raised = "AbortError"
      => /\ i \in aborted
         /\ calls[i].thrown = "AbortError"
         /\ calls[i].outcome = "cancelled"
         /\ calls[i].reported = "info"

C5_Witness ==
  \E i \in DOMAIN calls :
    calls[i].raised = "AbortError" /\ calls[i].reported = "info"

\* C6: a topology exception of the union/difference query is not thrown to
\* the caller of calculateZones (it is answered with the fallback result).
C6_TopologyIsNotThrown ==
  \A i \in DOMAIN calls :
    calls[i].raised = "TopologyException" => calls[i].thrown = "none"

\* C7: on a store that holds a location with an invalid geometry, a
\* calculateZones call that is not cancelled completes and never throws.
C7_InvalidGeometryNeverThrows ==
  \A i \in DOMAIN calls :
    ( /\ calls[i].pc = "done"
      /\ calls[i].outcome \in {"delivered", "cancelled", "error"}
      /\ i \notin aborted
      /\ \E r \in table : ~r.valid )
    => calls[i].outcome = "delivered"

\* ---------------------------------------------------------------------------
\* The store (DuckDBSpatialService): initialize, dispose and the ingestion
\* operations, one action per stretch of code between two awaits.
\* ---------------------------------------------------------------------------

\* A query sent over this.conn reaches the engine: the connection is there and
\* close() has not been called on it.
Connected == conn /\ disposePc # "closing"

\* The tags of an OSM element that the code reads: amenity and leisure, "" for
\* a key that is absent. NoTags is an element without a tags object.
Tags(amenity, leisure) == [present |-> TRUE, amenity |-> amenity, leisure |-> leisure]
NoTags == [present |-> FALSE, amenity |-> "", leisure |-> ""]

\* Lines 616-623.
getLocationType(tags) ==
  IF tags.amenity = "school" THEN "school"
  ELSE IF tags.amenity = "kindergarten" THEN "kindergarten"
  ELSE IF tags.leisure = "playground" THEN "playground"
  ELSE IF tags.amenity = "community_centre" THEN "community_centre"
  ELSE IF tags.leisure = "sports_centre" THEN "sports_centre"
  ELSE "other"

\* Lines 496-498: the WKT type of a way with at least two resolved points.
GeometryKindClosed(isClosed, n) == IF isClosed THEN "POLYGON" ELSE "LINESTRING"
GeometryKind(isClosed, n) == IF isClosed /\ n >= 4 THEN "POLYGON" ELSE "LINESTRING"

\* OSM elements.  tags = NoTags is an element without tags; wellFormed is
\* FALSE for a node whose lon/lat are not numbers; simple is FALSE for a way
\* whose ring crosses itself.
Node(id, lon, lat, tags, wellFormed) ==
  [type |-> "node", id |-> id, lon |-> lon, lat |-> lat, nodes |-> << >>,
   tags |-> tags, wellFormed |-> wellFormed, simple |-> TRUE]
Way(id, nodes, tags, simple) ==
  [type |-> "way", id |-> id, lon |-> 0, lat |-> 0, nodes |-> nodes,
   tags |-> tags, wellFormed |-> TRUE, simple |-> simple]

\* First pass of loadOSMData: the map of nodes, a later node of the same id
\* replacing an earlier one.
NodeIds(elements) ==
  {elements[i].id : i \in {k \in DOMAIN elements : elements[k].type = "node"}}
NodeAt(elements, nid) ==
  LET at == {k \in DOMAIN elements :
               elements[k].type = "node" /\ elements[k].id = nid}
  IN  elements[CHOOSE k \in at : \A l \in at : l <= k]

\* way.nodes.map(nodes.get).filter(defined)
Coords(elements, way) ==
  LET known(nid) == nid \in NodeIds(elements)
      ids == SelectSeq(way.nodes, known)
  IN  [i \in 1..Len(ids) |-> NodeAt(elements, ids[i])]

\* The row the second pass prepares for one element; kind "none" when the
\* element yields no row.
PreparedRow(elements, e, id) ==
  IF ~e.tags.present THEN [kind |-> "none"]
  ELSE IF e.type = "node"
  THEN [kind |-> "POINT", id |-> id, osm_id |-> e.id,
        type |-> getLocationType(e.tags), tags |-> e.tags,
        insertable |-> e.wellFormed, valid |-> TRUE]
  ELSE LET coords == Coords(elements, e)
           n == Len(coords)
       IN  IF n < 2 THEN [kind |-> "none"]
           ELSE LET isClosed == coords[1].lon = coords[n].lon
                                /\ coords[1].lat = coords[n].lat
                    polygon == GeometryKind(isClosed, n) = "POLYGON"
                IN  [kind |-> GeometryKind(isClosed, n),
                     id |-> id, osm_id |-> e.id,
                     type |-> getLocationType(e.tags), tags |-> e.tags,
                     insertable |-> \A i \in 1..n : coords[i].wellFormed,
                     valid |-> (~polygon) \/ e.simple]

\* Second pass: insertData, ids handed out from 1 in input order.
RECURSIVE InsertDataFrom(_, _, _)
InsertDataFrom(elements, k, id) ==
  IF k > Len(elements) THEN << >>
  ELSE LET row == PreparedRow(elements, elements[k], id)
       IN  IF row.kind = "none" THEN InsertDataFrom(elements, k + 1, id)
           ELSE << row >> \o InsertDataFrom(elements, k + 1, id + 1)
InsertData(elements) == InsertDataFrom(elements, 1, 1)

\* The inputs handed to loadOSMData.
OsmInputs ==
  LET n1 == Node(1, 0, 0, Tags("school", ""), TRUE)
      n2 == Node(2, 10, 0, NoTags, TRUE)
      n3 == Node(3, 10, 10, NoTags, TRUE)
      n4 == Node(4, 5, 5, Tags("", "playground"), FALSE)
      ring == Way(10, << 1, 2, 3, 1 >>, Tags("kindergarten", "sports_centre"), TRUE)
      twisted == Way(11, << 1, 3, 2, 3, 1 >>, Tags("", "fitness_centre"), FALSE)
      line == Way(12, << 1, 2, 1 >>, Tags("playground", ""), TRUE)
      dangling == Way(13, << 2, 9 >>, Tags("school", ""), TRUE)
      untagged == Way(14, << 1, 2, 3, 1 >>, NoTags, TRUE)
      broken == Way(15, << 4, 1 >>, Tags("", ""), TRUE)
  IN  { << >>,
        << n1, n2, n3, ring >>,
        << n1, n4, line, n2 >>,
        << n4, dangling, untagged, n2 >>,
        << n1, n2, n3, twisted, n4, broken >> }

\* What the site and application variables are while the store is exercised
\* on its own.
siteIdle == UNCHANGED << hookVars, appVars, siteVars, callVars, queryVars >>

\* initialize(), line 35: an initialized store returns at once; otherwise the
\* bundle selection is awaited.
InitStart ==
  /\ initPc = "idle"
  /\ lastCall' = [op |-> "initialize", initialized |-> initialized,
                  passed |-> ~initialized]
  /\ initPc' = IF initialized THEN "idle" ELSE "bundle"
  /\ UNCHANGED << storeVars, engines, disposePc, ing >>
  /\ siteIdle

\* Lines 56-60: the worker and the database object are created.
InitWorker ==
  /\ initPc = "bundle"
  /\ engines < MaxEngines
  /\ engines' = engines + 1
  /\ initPc' = "open"
  /\ UNCHANGED << storeVars, disposePc, ing, lastCall >>
  /\ siteIdle

\* Lines 70-71: instantiate and open are done; this.db is set and the
\* connection is awaited.
InitOpened ==
  /\ initPc = "open"
  /\ db' = TRUE
  /\ initPc' = "connect"
  /\ UNCHANGED << conn, initialized, loadedFromParquet, tableExists, table,
                  engines, disposePc, ing, lastCall >>
  /\ siteIdle

\* Line 71: this.conn is the connection to the new, empty database.
InitConnected ==
  /\ initPc = "connect"
  /\ conn' = TRUE
  /\ tableExists' = FALSE
  /\ table' = {}
  /\ initPc' = "spatial"
  /\ UNCHANGED << db, initialized, loadedFromParquet,
                  engines, disposePc, ing, lastCall >>
  /\ siteIdle

\* Lines 74-81: the extension is installed and loaded, the engine configured.
\* createSchema (line 231) then needs the connection.
InitSpatial ==
  /\ initPc = "spatial"
  /\ Connected
  /\ initPc' = "schema"
  /\ UNCHANGED << storeVars, engines, disposePc, ing, lastCall >>
  /\ siteIdle

\* A statement that creates nothing.
CreateTableSkipped(exists) == exists

\* createSchema, lines 236-255: after CREATE TABLE IF NOT EXISTS the table
\* exists, with the rows it had if it was there already.
CreateTable(exists) == TRUE

\* initialize, line 84: the first statement of createSchema has run.
InitTableCreated ==
  /\ initPc = "schema"
  /\ Connected
  /\ tableExists' = CreateTable(tableExists)
  /\ initPc' = "indexes"
  /\ UNCHANGED << conn, db, initialized, loadedFromParquet, table,
                  engines, disposePc, ing, lastCall >>
  /\ siteIdle

\* Lines 258-291 and 86: the indexes are there; initialized becomes true.
InitDone ==
  /\ initPc = "indexes"
  /\ Connected /\ tableExists
  /\ initialized' = TRUE
  /\ initPc' = "idle"
  /\ UNCHANGED << conn, db, loadedFromParquet, tableExists, table,
                  engines, disposePc, ing, lastCall >>
  /\ siteIdle

\* Lines 89-93: any awaited step rejects; initialize rethrows and leaves the
\* fields as they are.
InitFail ==
  /\ initPc \in {"open", "connect", "spatial", "schema", "indexes"}
  /\ initPc' = "idle"
  /\ UNCHANGED << storeVars, engines, disposePc, ing, lastCall >>
  /\ siteIdle

\* dispose(), lines 977-985.  The hook calls it once its initialize() has
\* completed.
DisposeStart ==
  /\ disposePc = "idle"
  /\ initialized
  /\ lastCall' = [op |-> "dispose", initialized |-> initialized,
                  passed |-> TRUE]
  /\ disposePc' = IF conn THEN "closing"
                  ELSE IF db THEN "terminating" ELSE "idle"
  /\ initialized' = IF conn \/ db THEN initialized ELSE FALSE
  /\ UNCHANGED << conn, db, loadedFromParquet, tableExists, table,
                  engines, initPc, ing >>
  /\ siteIdle

\* Line 979, after conn.close().
DisposeClosed ==
  /\ disposePc = "closing"
  /\ conn' = FALSE
  /\ disposePc' = IF db THEN "terminating" ELSE "idle"
  /\ initialized' = IF db THEN initialized ELSE FALSE
  /\ UNCHANGED << db, loadedFromParquet, tableExists, table,
                  engines, initPc, ing, lastCall >>
  /\ siteIdle

\* Lines 983-985, after db.terminate().
DisposeTerminated ==
  /\ disposePc = "terminating"
  /\ db' = FALSE
  /\ initialized' = FALSE
  /\ disposePc' = "idle"
  /\ UNCHANGED << conn, loadedFromParquet, tableExists, table,
                  engines, initPc, ing, lastCall >>
  /\ siteIdle

\* Ingestion is serialised by the callers: one ingestion operation at a time.
IngestFree == ing.pc \in {"idle", "done"}
\* The record of an ingestion that starts now: the engine it starts on,
\* whether the store is initialized and not being disposed, and the rows the
\* store holds (old: those of them that are still there).
Ingest(op, pc) ==
  [IdleIngest EXCEPT !.op = op, !.pc = pc, !.engine = engines,
                     !.ready = initialized /\ conn /\ db /\ disposePc = "idle",
                     !.had = table # {}, !.old = table]
IngestEnd(i, outcome, cause) ==
  [i EXCEPT !.pc = "done", !.rows = << >>, !.input = << >>, !.next = 0,
            !.cur = 0, !.outcome = outcome, !.cause = cause]

\* A catch block that rethrows what it caught.
LoadFromParquetCatchRethrows(err) == "threw"

\* The catch of loadFromParquet, lines 403-407: every error becomes a
\* { success: false } result.
LoadFromParquetCatch(err) == "failure"

\* loadFromParquet, line 313, then the availability check is awaited.
LoadParquetStart ==
  /\ IngestFree
  /\ lastCall' = [op |-> "loadFromParquet", initialized |-> initialized,
                  passed |-> conn /\ db]
  /\ ing' = IF conn /\ db
            THEN Ingest("loadFromParquet", "available")
            ELSE IngestEnd(Ingest("loadFromParquet", "done"),
                           "threw", "NotInitialized")
  /\ UNCHANGED << storeVars, engines, initPc, disposePc >>
  /\ siteIdle

\* Lines 323-335: the snapshot is not there, or the DROP is sent.
LoadParquetAvailable(parquetAvailable) ==
  /\ ing.op = "loadFromParquet" /\ ing.pc = "available"
  /\ ing' = IF ~parquetAvailable
            THEN IngestEnd(ing, "failure", "unavailable")
            ELSE IF ~conn
            THEN IngestEnd(ing, LoadFromParquetCatch("TypeError"), "engine")
            ELSE [ing EXCEPT !.pc = "drop"]
  /\ UNCHANGED << storeVars, engines, initPc, disposePc, lastCall >>
  /\ siteIdle

\* Lines 335-344: DROP TABLE IF EXISTS has run; the file is registered.
LoadParquetDropped ==
  /\ ing.op = "loadFromParquet" /\ ing.pc = "drop"
  /\ IF Connected
     THEN /\ tableExists' = FALSE
          /\ table' = {}
          /\ ing' = IF db THEN [ing EXCEPT !.pc = "register", !.old = {}]
                    ELSE IngestEnd(ing, LoadFromParquetCatch("TypeError"),
                                   "engine")
     ELSE /\ UNCHANGED << tableExists, table >>
          /\ ing' = IngestEnd(ing, LoadFromParquetCatch("Error"), "engine")
  /\ UNCHANGED << conn, db, initialized, loadedFromParquet,
                  engines, initPc, disposePc, lastCall >>
  /\ siteIdle

\* Lines 339-350: the registration is done (or rejected); CREATE TABLE AS
\* SELECT is sent.
LoadParquetRegistered(ok) ==
  /\ ing.op = "loadFromParquet" /\ ing.pc = "register"
  /\ ing' = IF ok /\ conn THEN [ing EXCEPT !.pc = "create"]
            ELSE IngestEnd(ing, LoadFromParquetCatch("Error"), "engine")
  /\ UNCHANGED << storeVars, engines, initPc, disposePc, lastCall >>
  /\ siteIdle

\* Lines 347-350: the table is created from the snapshot, unless the file
\* cannot be read or the table is there already.
LoadParquetCreated(ok, rows) ==
  /\ ing.op = "loadFromParquet" /\ ing.pc = "create"
  /\ IF ok /\ Connected /\ ~tableExists
     THEN /\ tableExists' = TRUE
          /\ table' = rows
          /\ ing' = [ing EXCEPT !.pc = "indexes"]
     ELSE /\ UNCHANGED << tableExists, table >>
          /\ ing' = IngestEnd(ing, LoadFromParquetCatch("Error"), "engine")
  /\ UNCHANGED << conn, db, initialized, loadedFromParquet,
                  engines, initPc, disposePc, lastCall >>
  /\ siteIdle

\* Lines 357-402: indexes, ANALYZE, COUNT; then loadedFromParquet is set.
LoadParquetIndexed ==
  /\ ing.op = "loadFromParquet" /\ ing.pc = "indexes"
  /\ IF Connected /\ tableExists
     THEN /\ loadedFromParquet' = TRUE
          /\ ing' = IngestEnd([ing EXCEPT !.count = Cardinality(table)],
                              "success", "none")
     ELSE /\ UNCHANGED loadedFromParquet
          /\ ing' = IngestEnd(ing, LoadFromParquetCatch("Error"), "engine")
  /\ UNCHANGED << conn, db, initialized, tableExists, table,
                  engines, initPc, disposePc, lastCall >>
  /\ siteIdle

\* ejectParquetData, lines 420-432.
EjectStart ==
  /\ IngestFree
  /\ lastCall' = [op |-> "ejectParquetData", initialized |-> initialized,
                  passed |-> conn]
  /\ ing' = IF conn THEN Ingest("ejectParquetData", "drop")
            ELSE IngestEnd(Ingest("ejectParquetData", "done"),
                           "threw", "NotInitialized")
  /\ UNCHANGED << storeVars, engines, initPc, disposePc >>
  /\ siteIdle

\* Line 426 has run; createSchema (line 231) needs the connection.
EjectDropped ==
  /\ ing.op = "ejectParquetData" /\ ing.pc = "drop"
  /\ IF Connected
     THEN /\ tableExists' = FALSE
          /\ table' = {}
          /\ ing' = [ing EXCEPT !.pc = "schema", !.old = {}]
     ELSE /\ UNCHANGED << tableExists, table >>
          /\ ing' = IngestEnd(ing, "threw", "engine")
  /\ UNCHANGED << conn, db, initialized, loadedFromParquet,
                  engines, initPc, disposePc, lastCall >>
  /\ siteIdle

\* Lines 429-431: the schema is back; loadedFromParquet is cleared.
EjectSchema ==
  /\ ing.op = "ejectParquetData" /\ ing.pc = "schema"
  /\ IF Connected
     THEN /\ tableExists' = CreateTable(tableExists)
          /\ loadedFromParquet' = FALSE
          /\ ing' = IngestEnd(ing, "ok", "none")
     ELSE /\ UNCHANGED << tableExists, loadedFromParquet >>
          /\ ing' = IngestEnd(ing, "threw", "engine")
  /\ UNCHANGED << conn, db, initialized, table,
                  engines, initPc, disposePc, lastCall >>
  /\ siteIdle

\* A statement that leaves the rows where they are.
DeleteKeepsRows(t) == t

\* The statement DELETE FROM sensitive_locations, line 448.
DeleteAll(t) == {}

\* An INSERT of the given prepared rows succeeds as a whole or not at all:
\* every row must be accepted by the engine and no id may be taken.
Insertable(rs) ==
  /\ Connected /\ tableExists
  /\ \A r \in rs : r.insertable /\ ~\E t \in table : t.id = r.id
StoredRows(rs) == {Row(r.id, r.valid) : r \in rs}

\* The rows of the batch that starts at index first (lines 523-525).
BatchEnd(rows, first) ==
  IF first + BatchSize - 1 < Len(rows) THEN first + BatchSize - 1 ELSE Len(rows)
Batch(rows, first) == {rows[k] : k \in first..BatchEnd(rows, first)}

\* A loop that gives up after the batch it has just handled.
AfterBatchStops(i, first) == [i EXCEPT !.pc = "analyze", !.next = 0, !.cur = 0]

\* The loop of line 522 after the batch that started at first: the next
\* batch, or ANALYZE once there is none.
AfterBatch(i, first) ==
  IF first + BatchSize <= Len(i.rows)
  THEN [i EXCEPT !.pc = "batch", !.next = first + BatchSize, !.cur = 0]
  ELSE [i EXCEPT !.pc = "analyze", !.next = 0, !.cur = 0]

\* loadOSMData, line 438, then DELETE is awaited.  insertData depends on the
\* input only, so it is computed here although the code builds it after the
\* DELETE.
LoadOSMStart(elements) ==
  /\ IngestFree
  /\ lastCall' = [op |-> "loadOSMData", initialized |-> initialized,
                  passed |-> conn]
  /\ ing' = IF conn
            THEN [Ingest("loadOSMData", "delete")
                    EXCEPT !.rows = InsertData(elements), !.input = elements]
            ELSE IngestEnd(Ingest("loadOSMData", "done"),
                           "threw", "NotInitialized")
  /\ UNCHANGED << storeVars, engines, initPc, disposePc >>
  /\ siteIdle

\* Lines 448-530: the table is emptied; the first batch is sent, if any.
LoadOSMDeleted ==
  /\ ing.op = "loadOSMData" /\ ing.pc = "delete"
  /\ IF Connected /\ tableExists
     THEN /\ table' = DeleteAll(table)
          /\ ing' = IF Len(ing.rows) > 0
                    THEN [ing EXCEPT !.pc = "batch", !.next = 1,
                                     !.old = @ \cap DeleteAll(table)]
                    ELSE [ing EXCEPT !.pc = "analyze",
                                     !.old = @ \cap DeleteAll(table)]
     ELSE /\ UNCHANGED table
          /\ ing' = IngestEnd(ing, "threw", "engine")
  /\ UNCHANGED << conn, db, initialized, loadedFromParquet, tableExists,
                  engines, initPc, disposePc, lastCall >>
  /\ siteIdle

\* Lines 560-568: the multi-row INSERT has run, or it failed and the rows of
\* the batch are inserted one by one.
LoadOSMBatch ==
  /\ ing.op = "loadOSMData" /\ ing.pc = "batch"
  /\ LET batch == Batch(ing.rows, ing.next)
     IN  IF Insertable(batch)
         THEN /\ table' = table \cup StoredRows(batch)
              /\ ing' = AfterBatch([ing EXCEPT !.inserted = @ + Cardinality(batch)],
                                   ing.next)
         ELSE /\ UNCHANGED table
              /\ ing' = [ing EXCEPT !.pc = "row", !.cur = ing.next,
                                    !.fallbacks = @ + 1]
  /\ UNCHANGED << conn, db, initialized, loadedFromParquet, tableExists,
                  engines, initPc, disposePc, lastCall >>
  /\ siteIdle

\* Lines 568-597: one individual INSERT has run; a failure is logged and the
\* loop goes on.
LoadOSMRow ==
  /\ ing.op = "loadOSMData" /\ ing.pc = "row"
  /\ LET row == ing.rows[ing.cur]
         ok == Insertable({row})
         i == IF ok THEN [ing EXCEPT !.inserted = @ + 1]
              ELSE [ing EXCEPT !.failed = @ + 1]
     IN  /\ table' = IF ok THEN table \cup StoredRows({row}) ELSE table
         /\ ing' = IF ing.cur < BatchEnd(ing.rows, ing.next)
                   THEN [i EXCEPT !.cur = @ + 1]
                   ELSE AfterBatch(i, ing.next)
  /\ UNCHANGED << conn, db, initialized, loadedFromParquet, tableExists,
                  engines, initPc, disposePc, lastCall >>
  /\ siteIdle

\* Line 603: ANALYZE.
LoadOSMAnalyzed ==
  /\ ing.op = "loadOSMData" /\ ing.pc = "analyze"
  /\ ing' = IF Connected /\ tableExists THEN [ing EXCEPT !.pc = "count"]
            ELSE IngestEnd(ing, "threw", "engine")
  /\ UNCHANGED << storeVars, engines, initPc, disposePc, lastCall >>
  /\ siteIdle

\* Lines 606-610: the row count is read and the operation returns.
LoadOSMCounted ==
  /\ ing.op = "loadOSMData" /\ ing.pc = "count"
  /\ ing' = IF Connected /\ tableExists
            THEN IngestEnd([ing EXCEPT !.count = Cardinality(table)],
                           "ok", "none")
            ELSE IngestEnd(ing, "threw", "engine")
  /\ UNCHANGED << storeVars, engines, initPc, disposePc, lastCall >>
  /\ siteIdle

\* getStatistics (line 913), calculateZones (line 640): the entry check of a
\* read operation invoked on the store.
StoreRead(op) ==
  /\ lastCall' = [op |-> op, initialized |-> initialized, passed |-> conn]
  /\ lastCall' # lastCall
  /\ UNCHANGED << storeVars, engines, initPc, disposePc, ing >>
  /\ siteIdle

\* No component that uses the hook is mounted.
HooksUnmounted ==
  /\ mounted = [h \in Hooks |-> FALSE] /\ hookInit = [h \in Hooks |-> FALSE]
  /\ hookPc = [h \in Hooks |-> "idle"] /\ hookEngine = [h \in Hooks |-> 0]
  /\ connOf = 0 /\ sinceDispose = 0

\* The service object as constructed (lines 16-29), the application state as
\* in InitSite.
Constructed ==
  /\ conn = FALSE /\ db = FALSE /\ initialized = FALSE
  /\ loadedFromParquet = FALSE /\ tableExists = FALSE /\ table = {}
  /\ engines = 0 /\ initPc = "idle" /\ disposePc = "idle"
  /\ ing = IdleIngest /\ lastCall = NoCall
  /\ HooksUnmounted
  /\ zoom = configZoom /\ bounds = NoBounds /\ isLoading = FALSE
  /\ geoJSON = FALSE /\ bufferZones = NoBounds /\ eligibleZones = NoBounds
  /\ statusType = "info"
  /\ dataLoadedRef = FALSE
  /\ hasCalculatedOnce = [s \in Sites |-> FALSE]
  /\ hasTriggeredAutoCalculate = [s \in Sites |-> FALSE]
  /\ isCalculatingRef = [s \in Sites |-> FALSE]
  /\ abortControllerRef = [s \in Sites |-> 0]
  /\ previousBoundsRef = [s \in Sites |-> NoBounds]
  /\ previousZoomRef = [s \in Sites |-> startZoom]
  /\ recalculateTimer = [s \in Sites |-> FALSE]
  /\ calls = << >> /\ aborted = {} /\ moves = 0

\* The service as constructed; no query has been made.
InitStore == Constructed /\ zones = NoZones /\ search = NoSearch /\ repair = NoRepair

NextStore ==
  \/ InitStart
  \/ InitWorker
  \/ InitOpened
  \/ InitConnected
  \/ InitSpatial
  \/ InitTableCreated
  \/ InitDone
  \/ InitFail
  \/ DisposeStart
  \/ DisposeClosed
  \/ DisposeTerminated
  \/ LoadParquetStart
  \/ \E b \in BOOLEAN : LoadParquetAvailable(b)
  \/ LoadParquetDropped
  \/ \E ok \in BOOLEAN : LoadParquetRegistered(ok)
  \/ \E ok \in BOOLEAN, rows \in SnapshotRows : LoadParquetCreated(ok, rows)
  \/ LoadParquetIndexed
  \/ EjectStart
  \/ EjectDropped
  \/ EjectSchema
  \/ \E elements \in OsmInputs : LoadOSMStart(elements)
  \/ LoadOSMDeleted
  \/ LoadOSMBatch
  \/ LoadOSMRow
  \/ LoadOSMAnalyzed
  \/ LoadOSMCounted
  \/ \E op \in {"getStatistics", "calculateZones"} : StoreRead(op)

SpecStore == InitStore /\ [][NextStore]_vars

(***************************************************************************)
(* Claims about the store                                                  *)
(***************************************************************************)

\* C8: on an initialized store (initialize() completed, no dispose() begun
\* when the call was made) loadFromParquet never throws: when the snapshot
\* is unavailable or a step of the load fails, it returns success = false.
C8_ParquetFailureIsAResult ==
  (ing.op = "loadFromParquet" /\ ing.pc = "done" /\ ing.ready)
  => /\ ing.outcome # "threw"
     /\ ing.cause \in {"unavailable", "engine"} => ing.outcome = "failure"

\* A load on an initialized store whose snapshot could not be loaded.
C8_Witness ==
  /\ ing.op = "loadFromParquet" /\ ing.pc = "done" /\ ing.ready
  /\ ing.cause = "engine" /\ ing.outcome = "failure"

\* C9: calculateZones, getStatistics, loadOSMData and loadFromParquet,
\* invoked while initialize() has not completed, fail their entry check
\* ('Database not initialized'); none of them goes on against a store whose
\* connection is open but whose set-up is not finished.
C9_NotInitializedFailsFast ==
  ( lastCall.op \in {"calculateZones", "getStatistics",
                     "loadOSMData", "loadFromParquet"}
    /\ ~lastCall.initialized )
  => ~lastCall.passed

\* The state of the store once a loadOSMData that started on an initialized
\* store has returned, while the engine it ran on is still the current one.
LoadOSMReturned ==
  /\ ing.op = "loadOSMData" /\ ing.pc = "done" /\ ing.outcome = "ok"
  /\ ing.ready /\ ing.engine = engines

\* C10: after loadOSMData has returned, the row count it reads and the count
\* getStatistics reads (SELECT COUNT(*), lines 606 and 916) are the number of
\* rows whose INSERT succeeded; a failed INSERT is not counted, and
\* loadOSMData throws only when the engine itself fails a statement outside
\* the inserts, never because a row was rejected.
C10_CountIsInsertedRows ==
  /\ [](LoadOSMReturned
        => /\ ing.count = ing.inserted
           /\ (Connected /\ tableExists) => Cardinality(table) = ing.inserted)
  /\ [][ ( ing.op = "loadOSMData" /\ ing.pc \notin {"idle", "done"}
           /\ ing'.pc = "done" /\ ing'.outcome = "threw" )
         => ~(Connected /\ tableExists) ]_vars

\* A load that returned with some rows stored and some rows rejected.
C10_Witness ==
  /\ LoadOSMReturned /\ Connected /\ tableExists
  /\ ing.inserted > 0 /\ ing.failed > 0
  /\ Cardinality(table) = ing.inserted

\* The number of prepared rows whose insert has been attempted and is over.
Processed(i) ==
  IF i.pc = "batch" THEN i.next - 1
  ELSE IF i.pc = "row" THEN i.cur - 1
  ELSE Len(i.rows)

\* The individually insertable rows among the first n prepared rows.
InsertableRows(rows, n) ==
  StoredRows({rows[k] : k \in {j \in 1..n : rows[j].insertable}})

\* A loadOSMData in its insert loop or past it, on the engine it started on,
\* which is initialized and still up.
LoadOSMInserting ==
  /\ ing.op = "loadOSMData" /\ ing.pc \in {"batch", "row", "analyze", "count"}
  /\ ing.ready /\ ing.engine = engines
  /\ Connected /\ tableExists

\* C11: whether a batch went in by the multi-row statement or, after that
\* statement failed, row by row, the store holds exactly the individually
\* insertable rows of the batches handled so far, and after a failed batch
\* the loop goes on with the next one: once the loop is over (ANALYZE) the
\* store holds the insertable rows of every batch.
C11_BatchAndRowByRowAgree ==
  LoadOSMInserting => table = InsertableRows(ing.rows, Processed(ing))

\* The loop is over; one batch went in by the statement, another one fell
\* back to individual inserts, of which some failed.
C11_Witness ==
  /\ LoadOSMInserting /\ ing.pc = "analyze"
  /\ ing.fallbacks > 0 /\ ing.fallbacks * BatchSize < Len(ing.rows)
  /\ ing.failed > 0 /\ ing.inserted > ing.failed

\* An ingestion call that has returned its rows: a loadOSMData that returned,
\* or a loadFromParquet that returned success = true.
IngestionReturned ==
  /\ ing.pc = "done"
  /\ \/ ing.op = "loadOSMData" /\ ing.outcome = "ok"
     \/ ing.op = "loadFromParquet" /\ ing.outcome = "success"

\* C12: after a loadOSMData call, and after a successful loadFromParquet
\* call, no row that the store held before the call is left, whatever
\* ingest, snapshot load and eject calls came before.
C12_ReplacedWholesale == IngestionReturned => ing.old = {}

\* A loadOSMData that returned on a store that held rows before, and that
\* stored rows of its own.
C12_Witness ==
  /\ IngestionReturned /\ ing.op = "loadOSMData"
  /\ ing.had /\ ing.inserted > 0 /\ ing.old = {}

\* C13: when ejectParquetData returns, isLoadedFromParquet() is false and the
\* table sensitive_locations exists and is empty.
C13_EjectLeavesEmptySchema ==
  [][ ( ing.op = "ejectParquetData" /\ ing.pc # "done"
        /\ ing'.pc = "done" /\ ing'.outcome = "ok" )
      => ( ~loadedFromParquet' /\ tableExists' /\ table' = {} ) ]_vars

\* An eject that returned on a store that held the rows of a snapshot.
C13_Witness ==
  /\ ing.op = "ejectParquetData" /\ ing.pc = "done" /\ ing.outcome = "ok"
  /\ ing.had /\ ing.old = {}
  /\ ~loadedFromParquet /\ tableExists /\ table = {}

(***************************************************************************)
(* The hook useDuckDBSpatial: the components' calls of initialize() and    *)
(* dispose() on the shared service                                         *)
(***************************************************************************)

hookIdle ==
  UNCHANGED << loadedFromParquet, initPc, ing, lastCall, appVars, siteVars, callVars,
               queryVars >>

\* The component mounts: the hook's effect (lines 56-60) calls its
\* initialize, which calls duckdbSpatial.initialize().  The service returns
\* at once when this.initialized is set (line 35) and the hook sets
\* isInitialized; otherwise the bundle selection is awaited.
HookMount(h) ==
  /\ ~mounted[h] /\ hookPc[h] = "idle"
  /\ mounted' = [mounted EXCEPT ![h] = TRUE]
  /\ hookInit' = [hookInit EXCEPT ![h] = initialized]
  /\ hookPc' = [hookPc EXCEPT ![h] = IF initialized THEN "idle" ELSE "bundle"]
  /\ UNCHANGED << conn, db, initialized, tableExists, table, engines, disposePc,
                  hookEngine, connOf, sinceDispose >>
  /\ hookIdle

\* duckdbSpatial.initialize, lines 56-68: this call's worker and database.
HookWorker(h) ==
  /\ hookPc[h] = "bundle"
  /\ engines < MaxEngines
  /\ engines' = engines + 1
  /\ sinceDispose' = sinceDispose + 1
  /\ hookEngine' = [hookEngine EXCEPT ![h] = engines + 1]
  /\ hookPc' = [hookPc EXCEPT ![h] = "open"]
  /\ UNCHANGED << conn, db, initialized, tableExists, table, disposePc,
                  mounted, hookInit, connOf >>
  /\ hookIdle

\* Line 70: this.db = db; the connection is awaited.
HookOpened(h) ==
  /\ hookPc[h] = "open"
  /\ db' = TRUE
  /\ hookPc' = [hookPc EXCEPT ![h] = "connect"]
  /\ UNCHANGED << conn, initialized, tableExists, table, engines, disposePc,
                  mounted, hookInit, hookEngine, connOf, sinceDispose >>
  /\ hookIdle

\* Line 71: this.conn = the connection to this call's database, which is
\* empty.
HookConnected(h) ==
  /\ hookPc[h] = "connect"
  /\ conn' = TRUE
  /\ connOf' = hookEngine[h]
  /\ tableExists' = FALSE
  /\ table' = {}
  /\ hookPc' = [hookPc EXCEPT ![h] = "setup"]
  /\ UNCHANGED << db, initialized, engines, disposePc,
                  mounted, hookInit, hookEngine, sinceDispose >>
  /\ hookIdle

\* Lines 74-86: extension, configuration and schema over this.conn, then
\* this.initialized = true; the hook sets isInitialized (line 39).
HookSetupDone(h) ==
  /\ hookPc[h] = "setup"
  /\ Connected
  /\ tableExists' = CreateTable(tableExists)
  /\ initialized' = TRUE
  /\ hookInit' = [hookInit EXCEPT ![h] = mounted[h]]
  /\ hookPc' = [hookPc EXCEPT ![h] = "idle"]
  /\ hookEngine' = [hookEngine EXCEPT ![h] = 0]
  /\ UNCHANGED << conn, db, table, engines, disposePc,
                  mounted, connOf, sinceDispose >>
  /\ hookIdle

\* An awaited step of the call rejects: the service rethrows (lines 89-93),
\* the hook records the error (lines 41-45).
HookInitFail(h) ==
  /\ hookPc[h] \in {"open", "connect", "setup"}
  /\ hookPc' = [hookPc EXCEPT ![h] = "idle"]
  /\ hookEngine' = [hookEngine EXCEPT ![h] = 0]
  /\ UNCHANGED << conn, db, initialized, tableExists, table, engines, disposePc,
                  mounted, hookInit, connOf, sinceDispose >>
  /\ hookIdle

\* The component unmounts: the hook's cleanup (lines 63-71) calls
\* duckdbSpatial.dispose() when its isInitialized is true.
HookUnmount(h) ==
  /\ h = "ActionButtons"
  /\ mounted[h]
  /\ disposePc = "idle"
  /\ mounted' = [mounted EXCEPT ![h] = FALSE]
  /\ hookInit' = [hookInit EXCEPT ![h] = FALSE]
  /\ IF hookInit[h]
     THEN /\ disposePc' = IF conn THEN "closing"
                          ELSE IF db THEN "terminating" ELSE "idle"
          /\ initialized' = IF conn \/ db THEN initialized ELSE FALSE
          /\ sinceDispose' = 0
     ELSE UNCHANGED << disposePc, initialized, sinceDispose >>
  /\ UNCHANGED << conn, db, tableExists, table, engines,
                  hookPc, hookEngine, connOf >>
  /\ hookIdle

NextHooks ==
  \/ \E h \in Hooks : HookMount(h)
  \/ \E h \in Hooks : HookWorker(h)
  \/ \E h \in Hooks : HookOpened(h)
  \/ \E h \in Hooks : HookConnected(h)
  \/ \E h \in Hooks : HookSetupDone(h)
  \/ \E h \in Hooks : HookInitFail(h)
  \/ \E h \in Hooks : HookUnmount(h)
  \/ DisposeClosed
  \/ DisposeTerminated

SpecHooks == InitStore /\ [][NextHooks]_vars

\* C14: between two dispose() calls at most one engine instance is created,
\* and an initialize() that overlaps a running one does not replace the
\* connection the service holds.
C14_OneEngineInstance ==
  /\ [](sinceDispose <= 1)
  /\ [][(conn /\ conn') => connOf' = connOf]_vars

\* The tag rules in the order school, kindergarten, playground,
\* community_centre, sports_centre, fitness_centre; no rule: other.
CategoryByRule(tags) ==
  IF tags.amenity = "school" THEN "school"
  ELSE IF tags.amenity = "kindergarten" THEN "kindergarten"
  ELSE IF tags.leisure = "playground" THEN "playground"
  ELSE IF tags.amenity = "community_centre" THEN "community_centre"
  ELSE IF tags.leisure = "sports_centre" THEN "sports_centre"
  ELSE IF tags.leisure = "fitness_centre" THEN "fitness_centre"
  ELSE "other"

\* C21: every row loadOSMData prepares carries the category of the first
\* matching tag rule, from school, kindergarten, playground,
\* community_centre, sports_centre, fitness_centre, and other when no rule
\* matches.
C21_CategoryOfFirstMatchingRule ==
  \A k \in DOMAIN ing.rows : ing.rows[k].type = CategoryByRule(ing.rows[k].tags)

\* The geometry kind of an element by its shape: "none" for no row.
KindByShape(elements, e) ==
  IF ~e.tags.present THEN "none"
  ELSE IF e.type = "node" THEN "POINT"
  ELSE LET c == Coords(elements, e)
           n == Len(c)
       IN  IF n >= 4 /\ c[1].lon = c[n].lon /\ c[1].lat = c[n].lat THEN "POLYGON"
           ELSE IF n >= 2 THEN "LINESTRING"
           ELSE "none"
RowElements(elements) ==
  LET yields(e) == KindByShape(elements, e) # "none"
  IN  SelectSeq(elements, yields)

\* C22: the rows loadOSMData prepares are, in input order, one per tagged
\* node (a point), per tagged way with at least 4 resolved points whose
\* first and last point coincide (a polygon) and per other tagged way with
\* at least 2 resolved points (a line); other elements give no row.
C22_GeometryKindByShape ==
  (ing.op = "loadOSMData" /\ ing.pc # "done")
  => /\ Len(ing.rows) = Len(RowElements(ing.input))
     /\ \A k \in DOMAIN ing.rows :
          /\ ing.rows[k].osm_id = RowElements(ing.input)[k].id
          /\ ing.rows[k].kind = KindByShape(ing.input, RowElements(ing.input)[k])

\* A closed way of three points became a line next to a point, in an input
\* that also holds an element without tags.
C22_Witness ==
  /\ ing.op = "loadOSMData" /\ ing.pc = "analyze"
  /\ \E k \in DOMAIN ing.rows :
       /\ ing.rows[k].kind = "LINESTRING"
       /\ Len(Coords(ing.input, RowElements(ing.input)[k])) = 3
  /\ \E k \in DOMAIN ing.rows : ing.rows[k].kind = "POINT"
  /\ \E i \in DOMAIN ing.input : ~ing.input[i].tags.present

\* C26: when loadFromParquet returns success = false on an initialized store
\* whose engine is up, the table sensitive_locations exists as before the
\* call, with the rows it held.
C26_FailedSnapshotLoadKeepsTable ==
  [][ ( /\ ing.op = "loadFromParquet" /\ ing.pc # "done"
        /\ ing'.pc = "done" /\ ing'.outcome = "failure"
        /\ ing.ready /\ ing.engine = engines /\ Connected )
      => ( tableExists' /\ (ing.had => table' # {}) ) ]_vars

\* C27: isLoadedFromParquet() is true only while the rows are those of the
\* snapshot: it is false on an initialized store once loadOSMData has
\* replaced the contents, and once the store has been disposed and
\* initialized again since the snapshot was loaded.
C27_FlagMeansSnapshotRows ==
  /\ (initialized /\ ing.op = "loadOSMData" /\ ing.pc = "done" /\ ing.outcome = "ok")
     => ~loadedFromParquet
  /\ ( /\ initialized /\ ing.op = "loadFromParquet" /\ ing.pc = "done"
       /\ ing.outcome = "success" /\ ing.engine # engines )
     => ~loadedFromParquet

\* C28: while a mounted component's hook reports isInitialized, the service
\* has a live connection: no unmount of another component disposes it.
C28_InitializedHookHasConnection ==
  \A h \in Hooks : (mounted[h] /\ hookInit[h]) => Connected

(***************************************************************************)
(* calculateZones as a function of the rows (lines 660-836)                *)
(*                                                                         *)
(* Geometry is kept on one axis, in units of 0.001 degree. A geometry is   *)
(* the set of lattice points it covers; a stored location covers an        *)
(* interval (a node one point, a way or polygon a longer interval), so its *)
(* centroid is the middle of its bounding box. Every condition of the      *)
(* query is a conjunction of the same test on x and on y, and the set      *)
(* operations act pointwise, so one axis shows each of them.               *)
(***************************************************************************)
WorldMax == 39
World == 0..WorldMax

\* A value of the engine's GEOMETRY type: SQL NULL, or the points covered.
Geom(cells) == [isNull |-> FALSE, cells |-> cells]

\* Lines 546, 678-681: the grid cells are 0.01 degree wide.
GridCell == 10
\* Line 674: bufferDistance / 111000 degrees, that is 111 metres per unit.
MetersPerUnit == 111
bufferInDegrees(meters) == meters \div MetersPerUnit

\* Lines 669-670: fast and balanced read the column geometry_simple.
geometryColumnFull(mode) == "geometry"
geometryColumn(mode) ==
  IF mode = "fast" \/ mode = "balanced" THEN "geometry_simple" ELSE "geometry"

\* Line 671: the tolerance of the final ST_Simplify in 0.0001 degree: 0.001
\* degree in fast mode, 0.0001 degree in balanced mode, 0 in accurate mode.
simplifyFactor(mode) ==
  IF mode = "fast" THEN 10 ELSE IF mode = "balanced" THEN 1 ELSE 0

\* The columns written at ingestion (lines 538-547): the geometry, its
\* bounding box and the grid cell of its centroid, FLOOR(centroid / 0.01).
Location(id, min, max) == [id |-> id, min |-> min, max |-> max]
geometry(l) == {x \in World : l.min <= x /\ x <= l.max}
grid_x(l) == (l.min + l.max) \div (2 * GridCell)

\* Lines 678-679: Math.floor(bbox.west / 0.01), Math.ceil(bbox.east / 0.01).
gridMinX(west) == west \div GridCell
gridMaxX(east) == (east + GridCell - 1) \div GridCell

\* The engine's functions used by the query.
ST_MakeEnvelope(west, east) == Geom({x \in World : west <= x /\ x <= east})
ST_Intersects(a, b) == a \cap b # {}
ST_Buffer(g, d) == Geom({x \in World : \E y \in g : Abs(x - y) <= d})
ST_Union_Agg(geoms) ==
  IF geoms = {} THEN NullGeometry ELSE Geom(UNION {g.cells : g \in geoms})
ST_DifferenceKeeps(a, b) == a
ST_Difference(a, b) ==
  IF a.isNull \/ b.isNull THEN NullGeometry ELSE Geom(a.cells \ b.cells)
COALESCEMissing(a, b) == a
COALESCE(a, b) == IF a.isNull THEN b ELSE a

\* ST_Simplify(area, tolerance) is Douglas-Peucker on the rings of the area:
\* it drops vertices that lie within the tolerance of the simplified
\* outline, so the outline moves by at most the tolerance. An empty area and
\* a single rectangle (here: an interval, its corners lie further apart
\* than the tolerance) keep their outline. Otherwise the outline may stay or
\* move at one place by up to the tolerance, either way. The tolerance is
\* given in 0.0001 degree, a tenth of the lattice unit: a tolerance below the
\* unit moves no lattice point.
IsInterval(c) == \A x \in c, y \in c, z \in World : (x <= z /\ z <= y) => z \in c
Outline(c, tol) ==
  {x \in World : \E y \in World : Abs(x - y) <= tol /\ ((x \in c) # (y \in c))}
ST_Simplify(a, tol) ==
  IF a.isNull \/ tol \div 10 = 0 \/ IsInterval(a.cells)
  THEN {a}
  ELSE {a} \cup {Geom((a.cells \ {x}) \cup ({x} \ a.cells)) :
                   x \in Outline(a.cells, tol \div 10)}

\* The value of a geometry column of a row: geometry_simple is
\* ST_Simplify(geometry, 0.0001) (line 541), for an interval the geometry
\* itself.
ColumnValue(l, column) ==
  IF column = "geometry_simple"
  THEN (CHOOSE g \in ST_Simplify(Geom(geometry(l)), 1) : TRUE).cells
  ELSE geometry(l)

\* Lines 717-732, CTE filtered_locations: grid-cell range, bounding box and
\* exact intersection of the geometry column chosen by the mode.
filtered_locations(store, west, east, column) ==
  {l \in store :
     /\ gridMinX(west) <= grid_x(l) /\ grid_x(l) <= gridMaxX(east)
     /\ l.min <= east /\ l.max >= west
     /\ ST_Intersects(ColumnValue(l, column), ST_MakeEnvelope(west, east).cells)}

\* Lines 711-770 and 791-836: the values calculateZones can return. An area
\* that is SQL NULL has no GeoJSON text and is returned as null.
calculateZones(store, west, east, mode, meters) ==
  LET viewport == ST_MakeEnvelope(west, east)
      column == geometryColumn(mode)
      filtered == filtered_locations(store, west, east, column)
      buffers == {ST_Buffer(ColumnValue(l, column), bufferInDegrees(meters)) :
                    l \in filtered}
      restricted == COALESCE(ST_Union_Agg(buffers), Geom({}))
      eligible == ST_Difference(viewport, restricted)
      final(area) == IF simplifyFactor(mode) > 0
                     THEN ST_Simplify(area, simplifyFactor(mode))
                     ELSE {area}
  IN  {[buffered |-> filtered, restrictedZones |-> r, eligibleZones |-> e,
        locationCount |-> Cardinality(filtered),
        column |-> column, simplified |-> simplifyFactor(mode)] :
         r \in final(restricted), e \in final(eligible)}

\* Inputs: stores of at most MaxStored locations, viewports, modes, distances.
MaxStored == 2
ZoneLocations == {Location(1, 12, 12), Location(2, 27, 27), Location(3, 0, 30),
                  Location(4, 22, 24), Location(5, 18, 21)}
ZoneStores == {s \in SUBSET ZoneLocations : Cardinality(s) <= MaxStored}
ZoneViewports == { <<20, 29>>, <<25, 35>>, <<5, 14>> }
ZoneModes == {"fast", "balanced", "accurate"}
BufferDistances == {111, 222, 333}

\* calculateZones(bbox, bufferDistance, mode) is called and returns; the
\* result of the call before it is kept for comparison.
ZonesCalculate(meters) ==
  /\ zones.pc \in {"ready", "done"}
  /\ \E r \in calculateZones(zones.store, zones.west, zones.east, zones.mode, meters) :
       zones' = [zones EXCEPT !.pc = "done", !.meters = meters,
                              !.buffered = r.buffered,
                              !.restrictedZones = r.restrictedZones,
                              !.eligibleZones = r.eligibleZones,
                              !.locationCount = r.locationCount,
                              !.column = r.column, !.simplified = r.simplified,
                              !.prevMeters = IF zones.pc = "done" THEN zones.meters ELSE 0,
                              !.prevEligible = zones.eligibleZones]
  /\ UNCHANGED << storeVars, opVars, hookVars, appVars, siteVars, callVars, search,
                  repair >>

InitZones ==
  /\ AppReady /\ search = NoSearch /\ repair = NoRepair
  /\ \E s \in ZoneStores, v \in ZoneViewports, m \in ZoneModes :
       zones = [NoZones EXCEPT !.pc = "ready", !.store = s, !.west = v[1],
                               !.east = v[2], !.mode = m]

NextZones == \E meters \in BufferDistances : ZonesCalculate(meters)

SpecZones == InitZones /\ [][NextZones]_vars

(***************************************************************************)
(* Properties of the zone query (SpecZones)                                *)
(***************************************************************************)
ZonesReturned == zones.pc = "done"
Viewport == ST_MakeEnvelope(zones.west, zones.east).cells
Intersecting == {l \in zones.store : ST_Intersects(geometry(l), Viewport)}

C16_AccuratePartitionsViewport ==
  (ZonesReturned /\ zones.mode = "accurate")
  => /\ ~zones.restrictedZones.isNull /\ ~zones.eligibleZones.isNull
     /\ \A x \in Viewport :
          (x \in zones.restrictedZones.cells) # (x \in zones.eligibleZones.cells)

\* Part of the viewport is restricted, part is eligible, and the restricted
\* area reaches beyond the viewport.
C16_Witness ==
  /\ ZonesReturned /\ zones.mode = "accurate"
  /\ zones.restrictedZones.cells \cap Viewport # {}
  /\ zones.eligibleZones.cells # {}
  /\ zones.restrictedZones.cells \ Viewport # {}
  /\ \A x \in Viewport :
       (x \in zones.restrictedZones.cells) # (x \in zones.eligibleZones.cells)

\* C17: for a fixed store, viewport and mode, the eligible area returned for a
\* larger buffer distance is contained in the one returned for a smaller
\* distance.
C17_EligibleShrinksWithDistance ==
  (ZonesReturned /\ zones.prevMeters > 0 /\ zones.prevMeters < zones.meters)
  => zones.eligibleZones.cells \subseteq zones.prevEligible.cells

\* The same where the query applies no final ST_Simplify (accurate mode).
C17_AccurateShrinks ==
  (ZonesReturned /\ zones.mode = "accurate" /\ zones.prevMeters > 0
     /\ zones.prevMeters < zones.meters)
  => zones.eligibleZones.cells \subseteq zones.prevEligible.cells

\* C18: the locations calculateZones buffers are exactly the stored locations
\* whose geometry intersects the viewport.
C18_BufferedAreTheIntersecting ==
  ZonesReturned => zones.buffered = Intersecting

(***************************************************************************)
(* searchLocations (lines 847-902)                                         *)
(*                                                                         *)
(* A string is a sequence of characters. A stored location is identified   *)
(* by its name; the names in a store are distinct.                         *)
(***************************************************************************)
MaxQuery == 2
QueryChars == {"a", "A", "%", "'", " "}
Strings(chars, n) == UNION {[1..k -> chars] : k \in 0..n}

\* The code unit of a character: the engine orders VARCHAR values by it.
CodeUnit(c) ==
  CASE c = " " -> 32 [] c = "%" -> 37 [] c = "'" -> 39 [] c = "A" -> 65
    [] c = "B" -> 66 [] c = "_" -> 95 [] c = "a" -> 97 [] OTHER -> 98

\* String.prototype.toLowerCase and SQL LOWER.
LowerChar(c) == IF c = "A" THEN "a" ELSE IF c = "B" THEN "b" ELSE c
LOWER(s) == [i \in DOMAIN s |-> LowerChar(s[i])]

\* String.prototype.trim.
RECURSIVE trim(_)
trim(s) ==
  IF s = << >> THEN s
  ELSE IF Head(s) = " " THEN trim(Tail(s))
  ELSE IF s[Len(s)] = " " THEN trim(SubSeq(s, 1, Len(s) - 1))
  ELSE s

\* Lines 874-878: searchQuery.replace(/'/g, "''") doubles each quote.
RECURSIVE replaceQuotes(_)
replaceQuotes(s) ==
  IF s = << >> THEN s
  ELSE IF Head(s) = "'" THEN <<"'", "'">> \o replaceQuotes(Tail(s))
  ELSE <<Head(s)>> \o replaceQuotes(Tail(s))

\* The engine reads the text between the quotes of a string literal: a
\* doubled quote stands for one quote.
RECURSIVE StringLiteral(_)
StringLiteral(s) ==
  IF s = << >> THEN s
  ELSE IF Len(s) >= 2 /\ s[1] = "'" /\ s[2] = "'"
       THEN <<"'">> \o StringLiteral(SubSeq(s, 3, Len(s)))
  ELSE <<Head(s)>> \o StringLiteral(Tail(s))

\* SQL LIKE: % matches any run of characters, _ any one character.
RECURSIVE LIKE(_, _)
LIKE(s, p) ==
  IF p = << >> THEN s = << >>
  ELSE IF Head(p) = "%"
       THEN LIKE(s, Tail(p)) \/ (s # << >> /\ LIKE(Tail(s), p))
  ELSE IF Head(p) = "_" THEN s # << >> /\ LIKE(Tail(s), Tail(p))
  ELSE s # << >> /\ Head(s) = Head(p) /\ LIKE(Tail(s), Tail(p))

\* ORDER BY name: comparison of two strings by code units.
RECURSIVE NameBefore(_, _)
NameBefore(a, b) ==
  IF b = << >> THEN FALSE
  ELSE IF a = << >> THEN TRUE
  ELSE IF Head(a) # Head(b) THEN CodeUnit(Head(a)) < CodeUnit(Head(b))
  ELSE NameBefore(Tail(a), Tail(b))

\* Lines 875-879: the CASE of the ORDER BY clause.
MatchTier(name, literal) ==
  IF LOWER(name) = literal THEN 0
  ELSE IF LIKE(LOWER(name), literal \o <<"%">>) THEN 1
  ELSE 2

\* The rows of a set in the order given by a key (tier, name).
OrderBy(rows, tier) ==
  CHOOSE s \in [1..Cardinality(rows) -> rows] :
    /\ \A i, j \in DOMAIN s : i # j => s[i] # s[j]
    /\ \A i, j \in DOMAIN s :
         i < j => \/ tier[s[i]] < tier[s[j]]
                  \/ tier[s[i]] = tier[s[j]] /\ NameBefore(s[i], s[j])
LIMIT(s, limit) == SubSeq(s, 1, IF limit < Len(s) THEN limit ELSE Len(s))

\* Lines 847-902. connected: this.conn is not null; failed: the query is
\* rejected (table missing, connection closed meanwhile).
searchLocations(connected, names, query, limit, failed) ==
  IF ~connected THEN [threw |-> TRUE, rows |-> << >>]
  ELSE LET searchQuery == trim(LOWER(query))
           literal == StringLiteral(replaceQuotes(searchQuery))
           tier == [n \in names |-> MatchTier(n, literal)]
           matching == {n \in names : LIKE(LOWER(n), <<"%">> \o literal \o <<"%">>)}
       IN  IF searchQuery = << >> \/ failed
           THEN [threw |-> FALSE, rows |-> << >>]
           ELSE [threw |-> FALSE, rows |-> LIMIT(OrderBy(matching, tier), limit)]

SearchStores == { {}, {<<"a", "b">>}, {<<"a">>, <<"A", "b">>, <<"b", "a">>},
                  {<<"B">>, <<"a", "b">>, <<"b">>} }
SearchLimits == {1, 20}

\* searchLocations(query, limit) is called and returns or throws.
SearchCall(query, limit, failed) ==
  /\ search.pc \in {"ready", "done"}
  /\ LET r == searchLocations(conn, search.names, query, limit,
                              failed \/ ~Connected \/ ~tableExists)
     IN  search' = [search EXCEPT !.pc = "done", !.query = query, !.limit = limit,
                                  !.failed = failed \/ ~Connected \/ ~tableExists,
                                  !.threw = r.threw, !.rows = r.rows]
  /\ UNCHANGED << storeVars, opVars, hookVars, appVars, siteVars, callVars, zones,
                  repair >>

\* The store before initialize(), without rows, and after it; search.names is
\* the name column of the rows loaded into the table.
InitSearch ==
  /\ zones = NoZones /\ repair = NoRepair
  /\ \E names \in SearchStores :
       /\ search = [NoSearch EXCEPT !.pc = "ready", !.names = names]
       /\ (Constructed /\ names = {}) \/ AppReady

NextSearch ==
  \E query \in Strings(QueryChars, MaxQuery), limit \in SearchLimits, failed \in BOOLEAN :
    SearchCall(query, limit, failed)

SpecSearch == InitSearch /\ [][NextSearch]_vars

(***************************************************************************)
(* Properties of searchLocations (SpecSearch)                              *)
(***************************************************************************)
\* C19: searchLocations never throws, whatever the state of the store: on an
\* internal error it returns an empty list.
C19_SearchNeverThrows ==
  search.pc = "done" => ~search.threw /\ (search.failed => search.rows = << >>)

\* The query as a substring, compared without regard to case.
Contains(s, q) ==
  \E i \in 0..(Len(s) - Len(q)) : SubSeq(LOWER(s), i + 1, i + Len(q)) = q
ContainTier(name, q) ==
  IF LOWER(name) = q THEN 0
  ELSE IF Len(name) >= Len(q) /\ SubSeq(LOWER(name), 1, Len(q)) = q THEN 1
  ELSE 2
Found(names, q, limit) ==
  LET tier == [n \in names |-> ContainTier(n, q)]
  IN  LIMIT(OrderBy({n \in names : Contains(n, q)}, tier), limit)

\* C20: a search that runs returns exactly the stored locations whose name
\* contains the query as a case-insensitive substring, exact matches first,
\* then prefix matches, then the others, each tier by name, cut to limit.
C20_SearchReturnsSubstringMatches ==
  ( /\ search.pc = "done" /\ ~search.threw /\ ~search.failed
    /\ trim(LOWER(search.query)) # << >> )
  => search.rows = Found(search.names, trim(LOWER(search.query)), search.limit)

(***************************************************************************)
(* repairGeometry (lines 162-225)                                          *)
(***************************************************************************)
\* The repair queries in the order of the code, lines 178-216.
RepairStepsBufferFirst == << "ST_Buffer", "ST_MakeValid", "ST_ReducePrecision" >>
RepairSteps == << "ST_MakeValid", "ST_Buffer", "ST_ReducePrecision" >>

\* Lines 179 and 205: a step is tried only if checkSpatialCapabilities (lines
\* 126-157) found its function; the zero-distance buffer is always tried.
StepEnabled(r, step) ==
  CASE step = "ST_MakeValid" -> r.hasMakeValid
    [] step = "ST_ReducePrecision" -> r.hasReducePrecision
    [] OTHER -> TRUE

\* Lines 178-220 from step k on: the steps tried and the value returned, the
\* name of the step whose result is returned or "null". succeeds is the set
\* of steps whose query the engine answers.
RECURSIVE RepairFrom(_, _, _, _)
RepairFrom(r, succeeds, k, tried) ==
  IF k > Len(RepairSteps) THEN [tried |-> tried, result |-> "null"]
  ELSE IF ~StepEnabled(r, RepairSteps[k]) THEN RepairFrom(r, succeeds, k + 1, tried)
  ELSE IF RepairSteps[k] \in succeeds
       THEN [tried |-> Append(tried, RepairSteps[k]), result |-> RepairSteps[k]]
  ELSE RepairFrom(r, succeeds, k + 1, Append(tried, RepairSteps[k]))

\* Lines 162-225. isValid is the answer to the ST_IsValid query: "valid",
\* "invalid", or "error" when the query is rejected.
repairGeometry(connected, r, isValid, succeeds) ==
  IF ~connected \/ isValid = "error" THEN [tried |-> << >>, result |-> "null"]
  ELSE IF isValid = "valid" THEN [tried |-> << >>, result |-> "unchanged"]
  ELSE RepairFrom(r, succeeds, 1, << >>)

\* repairGeometry(geometryWKT) is called and returns.
RepairCall(isValid, succeeds) ==
  /\ repair.pc \in {"ready", "done"}
  /\ LET out == repairGeometry(conn, repair, isValid, succeeds)
     IN  repair' = [repair EXCEPT !.pc = "done", !.isValid = isValid,
                                  !.succeeds = succeeds,
                                  !.tried = out.tried, !.result = out.result]
  /\ UNCHANGED << storeVars, opVars, hookVars, appVars, siteVars, callVars, zones,
                  search >>

\* The store before initialize(), with no capability found, and after it with
\* the capabilities the engine has.
InitRepair ==
  /\ zones = NoZones /\ search = NoSearch
  /\ \E mv \in BOOLEAN, rp \in BOOLEAN :
       /\ repair = [NoRepair EXCEPT !.pc = "ready", !.hasMakeValid = mv,
                                    !.hasReducePrecision = rp]
       /\ (Constructed /\ ~mv /\ ~rp) \/ AppReady

NextRepair ==
  \E isValid \in {"valid", "invalid", "error"}, succeeds \in SUBSET {RepairSteps[k] : k \in DOMAIN RepairSteps} :
    RepairCall(isValid, succeeds)

SpecRepair == InitRepair /\ [][NextRepair]_vars

(***************************************************************************)
(* Properties of repairGeometry (SpecRepair)                               *)
(***************************************************************************)
\* The steps the engine supports, in the order validity repair, zero-distance
\* buffer, precision reduction.
SupportedSteps ==
  (IF repair.hasMakeValid THEN << "ST_MakeValid" >> ELSE << >>)
  \o << "ST_Buffer" >>
  \o (IF repair.hasReducePrecision THEN << "ST_ReducePrecision" >> ELSE << >>)

C24_ModeFixesColumnAndTolerance ==
  ZonesReturned
  => /\ zones.column = IF zones.mode = "accurate" THEN "geometry" ELSE "geometry_simple"
     /\ zones.mode = "accurate" => zones.simplified = 0
     /\ zones.mode = "balanced"
        => 0 < zones.simplified /\ zones.simplified < simplifyFactor("fast")
     /\ zones.mode = "fast" => zones.simplified > simplifyFactor("balanced")

C24_Witness ==
  /\ ZonesReturned /\ zones.mode = "balanced" /\ zones.buffered # {}
  /\ zones.column = "geometry_simple"
  /\ 0 < zones.simplified /\ zones.simplified < simplifyFactor("fast")

\* C25: in accurate mode every point of the eligible area is farther than the
\* buffer distance from every stored location, also from those that lie
\* outside the viewport.
C25_EligibleIsFarFromEveryLocation ==
  (ZonesReturned /\ zones.mode = "accurate")
  => \A x \in zones.eligibleZones.cells, l \in zones.store :
       \A y \in geometry(l) : Abs(x - y) > bufferInDegrees(zones.meters)

\* The same for the locations that the query buffers.
C25_FarFromBufferedLocations ==
  (ZonesReturned /\ zones.mode = "accurate")
  => \A x \in zones.eligibleZones.cells, l \in zones.buffered :
       \A y \in geometry(l) : Abs(x - y) > bufferInDegrees(zones.meters)

(***************************************************************************)
(* The automatic calculations under the scheduling of the browser          *)
(*                                                                         *)
(* The call sites again, now with the control panel that can be collapsed  *)
(* and with fairness: an effect whose dependencies changed runs, a pending *)
(* timer fires, an awaited promise settles.  What the user does (moving    *)
(* the map, clicking, collapsing the panel) and the arrival of the data    *)
(* may or may not happen.  The user may have moved the map before the data *)
(* arrives, so a behaviour starts at the configured view or at any of      *)
(* MapViews; moves counts the map events from there.                       *)
(***************************************************************************)
InitAuto ==
  /\ \/ AppReady
     \/ \E v \in DOMAIN MapViews : AppReadyAt(MapViews[v].zoom, MapViews[v].bounds)
  /\ zones = NoZones /\ search = NoSearch /\ repair = NoRepair

\* The control panel is collapsed: ActionButtons unmounts and the cleanup of
\* its useDuckDBSpatial instance runs.  Followed here from a moment at which
\* no invocation of handleCalculateZones is pending and ActionButtons has no
\* timer.
PanelCollapse ==
  /\ \A i \in DOMAIN calls : calls[i].pc = "done"
  /\ ~recalculateTimer["ActionButtons"]
  /\ HookUnmount("ActionButtons")

\* What the user does, and the arrival of the data.
UserStep ==
  \/ \E v \in DOMAIN MapViews : MoveMap(v)
  \/ \E rows \in SnapshotRows : DataLoaderDone(rows)
  \/ \E rows \in SnapshotRows : mounted["ActionButtons"] /\ FetchDone(rows)
  \/ mounted["ActionButtons"] /\ ManualClick
  \/ PanelCollapse

\* What React, the timers and the promises do on their own.
Scheduled ==
  \/ \E s \in Sites : mounted[s] /\ FirstAutoEffect(s)
  \/ \E s \in Sites : mounted[s] /\ RecalcEffect(s)
  \/ \E s \in Sites : mounted[s] /\ TimerFire(s)
  \/ \E i \in 1..MaxCalls : StatsDone(i)
  \/ \E i \in 1..MaxCalls, q \in {"ok", "TopologyException", "CatalogError"} : CalcDone(i, q)
  \/ DisposeClosed
  \/ DisposeTerminated

NextAuto == UserStep \/ Scheduled

SpecAuto == InitAuto /\ [][NextAuto]_vars /\ WF_vars(Scheduled)

\* The conditions of the first auto-calculate effect hold for component s.
FirstAutoDue(s) ==
  /\ DataReady(s) /\ ~hasTriggeredAutoCalculate[s] /\ ~hasCalculatedOnce[s]
  /\ ~isLoading /\ ~isCalculatingRef[s]
  /\ zoom >= minZoomForCalculation /\ bounds # NoBounds

\* An automatic invocation is due but lies beyond the MaxCalls invocations
\* that are followed.
OutOfCalls ==
  /\ Len(calls) = MaxCalls
  /\ \E s \in Sites : mounted[s] /\ (recalculateTimer[s] \/ FirstAutoDue(s))

\* Invocation i has called duckdbSpatial.calculateZones.
Started(i) ==
  calls[i].pc = "calc" \/ calls[i].outcome \in {"delivered", "cancelled", "error"}

\* The map rests at view v, the store has data, and the zones on display were
\* computed for a viewport from which v is a significant movement.
Stale(v) ==
  /\ zoom = MapViews[v].zoom /\ bounds = MapViews[v].bounds
  /\ geoJSON /\ HasDuckDBData
  /\ bufferZones # NoBounds
  /\ isSignificantMovement(bounds, bufferZones, zoom, zoom)

\* C29: when the map comes to rest at a view of zoom 15 or more that differs
\* significantly from the viewport of the zones on display, calculateZones is
\* eventually called for that view, whatever smaller movements came last.
C29_StaleZonesAreRecalculated ==
  \A v \in {w \in DOMAIN MapViews : MapViews[w].zoom >= minZoomForCalculation} :
    (<>[]Stale(v))
    => <>(\/ \E i \in InFlight : calls[i].bounds = MapViews[v].bounds
          \/ OutOfCalls)

\* C30: once the data is loaded and the map stays at zoom 15 or more with
\* bounds set, calculateZones is eventually called: a first trigger that
\* returned early is tried again.
C30_FirstCalculationStarts ==
  (<>[](geoJSON /\ zoom >= minZoomForCalculation /\ bounds # NoBounds))
  => <>(\/ \E i \in DOMAIN calls : Started(i)
        \/ OutOfCalls)

\* With the store connected and holding rows the first calculation does
\* start: what keeps it from starting is the handler's early return.
C30_StartsWhenStoreHasData ==
  (<>[](geoJSON /\ HasDuckDBData /\ zoom >= minZoomForCalculation /\ bounds # NoBounds))
  => <>(\/ \E i \in DOMAIN calls : Started(i)
        \/ OutOfCalls)

====
